---------------------------- MODULE Spec2Model ----------------------------
(* Smart Expense Analyzer: the calculation engine of main.py and the       *)
(* affordability card of app.py, as a state machine whose actions are the  *)
(* calls of the engine's functions on bounded inputs.                      *)
(*                                                                         *)
(* Numbers.  Python's float arithmetic is modelled by exact rational       *)
(* arithmetic: a number is a pair <<n, d>> in lowest terms with d > 0.     *)
(* The pair <<0, 0>> stands for a raised ZeroDivisionError, which every    *)
(* later arithmetic step propagates.  IEEE-754 rounding is not modelled.   *)
(*                                                                         *)
(* Strings.  A Python str is the sequence of its code points, so that      *)
(* comparison, split, int() and strftime are computed character by         *)
(* character.                                                              *)
EXTENDS Integers, Sequences, FiniteSets, TLC

VARIABLES op, args, ret

vars == <<op, args, ret>>

-----------------------------------------------------------------------------
(* Rational arithmetic (Python float operators).                           *)

Abs(x) == IF x < 0 THEN -x ELSE x

RECURSIVE GCD(_, _)
GCD(a, b) == IF b = 0 THEN a ELSE GCD(b, a % b)

ZeroDivisionError == <<0, 0>>

IsErr(x) == x[2] = 0

Norm(n, d) ==
    LET g == GCD(Abs(n), Abs(d))
        s == IF d < 0 THEN -1 ELSE 1
    IN  <<(s * n) \div g, (s * d) \div g>>

R(n) == <<n, 1>>

Add(x, y) ==
    IF IsErr(x) \/ IsErr(y) THEN ZeroDivisionError
    ELSE Norm(x[1] * y[2] + y[1] * x[2], x[2] * y[2])

Sub(x, y) ==
    IF IsErr(x) \/ IsErr(y) THEN ZeroDivisionError
    ELSE Norm(x[1] * y[2] - y[1] * x[2], x[2] * y[2])

Mul(x, y) ==
    IF IsErr(x) \/ IsErr(y) THEN ZeroDivisionError
    ELSE Norm(x[1] * y[1], x[2] * y[2])

Div(x, y) ==
    IF IsErr(x) \/ IsErr(y) \/ y[1] = 0 THEN ZeroDivisionError
    ELSE Norm(x[1] * y[2], x[2] * y[1])

Lt(x, y) == x[1] * y[2] < y[1] * x[2]

Le(x, y) == x[1] * y[2] <= y[1] * x[2]

Gt(x, y) == Lt(y, x)

Ge(x, y) == Le(y, x)

AbsR(x) == <<Abs(x[1]), x[2]>>

-----------------------------------------------------------------------------
(* Strings (sequences of code points): "-" is 45, "0".."9" are 48..57.     *)

Min(a, b) == IF a < b THEN a ELSE b

\* Python's str < str: lexicographic by code point, a proper prefix is less.
StrLess(a, b) ==
    \E i \in 1..(Min(Len(a), Len(b)) + 1) :
        /\ \A j \in 1..(i - 1) : a[j] = b[j]
        /\ \/ i <= Len(a) /\ i <= Len(b) /\ a[i] < b[i]
           \/ i = Len(a) + 1 /\ i <= Len(b)

StrGreater(a, b) == StrLess(b, a)

\* "%04d" / "%02d": n written in decimal, zero-padded to w digits.
RECURSIVE ZeroPad(_, _)
ZeroPad(n, w) ==
    IF w = 0 THEN <<>> ELSE Append(ZeroPad(n \div 10, w - 1), 48 + (n % 10))

\* int(s) for a string of decimal digits.
RECURSIVE int(_)
int(s) ==
    IF s = <<>> THEN 0
    ELSE int(SubSeq(s, 1, Len(s) - 1)) * 10 + (s[Len(s)] - 48)

\* s.split("-")
RECURSIVE split(_)
split(s) ==
    IF \A i \in 1..Len(s) : s[i] # 45 THEN <<s>>
    ELSE LET i == CHOOSE k \in 1..Len(s) :
                      s[k] = 45 /\ \A j \in 1..(k - 1) : s[j] # 45
         IN  <<SubSeq(s, 1, i - 1)>> \o split(SubSeq(s, i + 1, Len(s)))

\* datetime.strptime(s, "%Y-%m-%d"): the date object <<year, month, day>>.
strptime(s) ==
    LET p == split(s) IN [year |-> int(p[1]), month |-> int(p[2]), day |-> int(p[3])]

\* date_obj.strftime("%Y-%m")
strftime_Ym(date_obj) == ZeroPad(date_obj.year, 4) \o <<45>> \o ZeroPad(date_obj.month, 2)

\* The text "YYYY-MM-DD" of a calendar date, as a CSV row carries it.
DateText(y, m, d) == ZeroPad(y, 4) \o <<45>> \o ZeroPad(m, 2) \o <<45>> \o ZeroPad(d, 2)

\* The month key "YYYY-MM" of year y, month m.
MonthKey(y, m) == ZeroPad(y, 4) \o <<45>> \o ZeroPad(m, 2)

-----------------------------------------------------------------------------
(* calendar.monthrange(year, month)[1]                                     *)

isleap(year) == year % 4 = 0 /\ (year % 100 # 0 \/ year % 400 = 0)

mdays == <<31, 28, 31, 30, 31, 30, 31, 31, 30, 31, 30, 31>>

monthrange_days(year, month) ==
    mdays[month] + (IF month = 2 /\ isleap(year) THEN 1 ELSE 0)

\* year, month = map(int, month_key.split("-")); calendar.monthrange(year, month)[1]
days_in_month_of(month_key) ==
    LET p == split(month_key) IN monthrange_days(int(p[1]), int(p[2]))

-----------------------------------------------------------------------------
(* Results: Python's None and a returned value.                            *)

None == [tag |-> "None"]

Value(v) == [tag |-> "value", val |-> v]

-----------------------------------------------------------------------------
(* Module-level configuration of main.py.                                  *)

INCOME_OVERRIDE_MONTHLY == Value(R(3300))

RENT_AMOUNT == 1400

RENT_START_MONTH == MonthKey(2026, 2)

RENT_START_DAY == 14

-----------------------------------------------------------------------------
(* Proration.                                                              *)

prorated_rent_budget(month_key, start_day, full_month_amount) ==
    LET days_in_month == days_in_month_of(month_key)
        days_covered  == days_in_month - start_day + 1
        daily_rate    == Div(full_month_amount, R(days_in_month))
    IN  Mul(daily_rate, R(days_covered))

prorate_monthly_amount_offbyone(month_key, start_day, full_month_amount) ==
    LET days_in_month == days_in_month_of(month_key)
        days_covered  == days_in_month - start_day
        daily_rate    == Div(full_month_amount, R(days_in_month))
    IN  Mul(daily_rate, R(days_covered))

prorate_monthly_amount(month_key, start_day, full_month_amount) ==
    LET days_in_month == days_in_month_of(month_key)
        days_covered  == days_in_month - start_day + 1
        daily_rate    == Div(full_month_amount, R(days_in_month))
    IN  Mul(daily_rate, R(days_covered))

-----------------------------------------------------------------------------
(* Affordability report (main.py) and its dashboard override (app.py).     *)

\* The (x / income) * 100 if income > 0 else 0 of both report builders.
pct_of_income(x, projected_income) ==
    IF Gt(projected_income, R(0))
    THEN Mul(Div(x, projected_income), R(100))
    ELSE R(0)

\* Project rent for the month (prorated for start month): main.py's decision.
report_projected_rent(target_month) ==
    IF target_month = RENT_START_MONTH
    THEN prorate_monthly_amount(target_month, RENT_START_DAY, R(RENT_AMOUNT))
    ELSE IF StrGreater(target_month, RENT_START_MONTH)
         THEN R(RENT_AMOUNT)
         ELSE R(0)

ui_projected_rent_swapped(target_month, ui) ==
    IF target_month = ui.rent_start_month
    THEN LET days_in_month == days_in_month_of(target_month)
             days_covered  == days_in_month - ui.rent_start_day + 1
             daily_rate    == Div(ui.rent_amount, R(days_in_month))
         IN  Mul(daily_rate, R(days_covered))
    ELSE IF StrLess(target_month, ui.rent_start_month)
         THEN ui.rent_amount
         ELSE R(0)

\* The same decision in app.py, on the sidebar's rent settings.
ui_projected_rent(target_month, ui) ==
    IF target_month = ui.rent_start_month
    THEN LET days_in_month == days_in_month_of(target_month)
             days_covered  == days_in_month - ui.rent_start_day + 1
             daily_rate    == Div(ui.rent_amount, R(days_in_month))
         IN  Mul(daily_rate, R(days_covered))
    ELSE IF StrGreater(target_month, ui.rent_start_month)
         THEN ui.rent_amount
         ELSE R(0)

rent_affordability_report(target_month, avg_paycheck_amount, avg_paychecks_per_month, baseline_nonrent_spend) ==
    LET projected_income ==
            IF INCOME_OVERRIDE_MONTHLY.tag # "None"
            THEN INCOME_OVERRIDE_MONTHLY.val
            ELSE Mul(avg_paycheck_amount, avg_paychecks_per_month)
        projected_rent == report_projected_rent(target_month)
        projected_total_spend == Add(baseline_nonrent_spend, projected_rent)
        projected_net == Sub(projected_income, projected_total_spend)
    IN  [month                  |-> target_month,
         projected_income       |-> projected_income,
         baseline_nonrent_spend |-> baseline_nonrent_spend,
         projected_rent         |-> projected_rent,
         projected_total_spend  |-> projected_total_spend,
         projected_net          |-> projected_net,
         rent_pct_income        |-> pct_of_income(projected_rent, projected_income),
         spend_pct_income       |-> pct_of_income(projected_total_spend, projected_income)]

affordability_with_ui_override_stale_net(target_month, ui) ==
    LET r0 == rent_affordability_report(target_month, R(0), R(0), ui.baseline_nonrent)
        r1 == IF ui.use_income_override
              THEN [r0 EXCEPT !.projected_income = ui.income_override_value]
              ELSE r0
        projected_rent == ui_projected_rent(target_month, ui)
        r2 == [r1 EXCEPT !.projected_rent = projected_rent]
        r3 == [r2 EXCEPT !.projected_total_spend =
                             Add(r2.baseline_nonrent_spend, projected_rent)]
        r5 == [r3 EXCEPT !.rent_pct_income =
                             pct_of_income(projected_rent, r3.projected_income)]
    IN  [r5 EXCEPT !.spend_pct_income =
                       pct_of_income(r5.projected_total_spend, r5.projected_income)]

\* ui: the sidebar widgets' values and the baseline computed from the data.
affordability_with_ui_override(target_month, ui) ==
    LET r0 == rent_affordability_report(target_month, R(0), R(0), ui.baseline_nonrent)
        r1 == IF ui.use_income_override
              THEN [r0 EXCEPT !.projected_income = ui.income_override_value]
              ELSE r0
        projected_rent == ui_projected_rent(target_month, ui)
        r2 == [r1 EXCEPT !.projected_rent = projected_rent]
        r3 == [r2 EXCEPT !.projected_total_spend =
                             Add(r2.baseline_nonrent_spend, projected_rent)]
        r4 == [r3 EXCEPT !.projected_net =
                             Sub(r3.projected_income, r3.projected_total_spend)]
        r5 == [r4 EXCEPT !.rent_pct_income =
                             pct_of_income(projected_rent, r4.projected_income)]
    IN  [r5 EXCEPT !.spend_pct_income =
                       pct_of_income(r5.projected_total_spend, r5.projected_income)]

status_label_at_threshold(rep) ==
    IF Le(rep.projected_income, R(0)) THEN "Not affordable (no income)"
    ELSE IF Lt(rep.projected_net, R(0)) THEN "Not affordable (negative net)"
    ELSE IF Ge(rep.rent_pct_income, R(40)) \/ Gt(rep.spend_pct_income, R(85))
         THEN "Tight"
    ELSE "Comfortable"

status_label(rep) ==
    IF Le(rep.projected_income, R(0)) THEN "Not affordable (no income)"
    ELSE IF Lt(rep.projected_net, R(0)) THEN "Not affordable (negative net)"
    ELSE IF Gt(rep.rent_pct_income, R(40)) \/ Gt(rep.spend_pct_income, R(85))
         THEN "Tight"
    ELSE "Comfortable"

-----------------------------------------------------------------------------
(* Trend analyzer.  A dict is a function from its keys to its values.      *)

Raised == [tag |-> "ZeroDivisionError"]

\* sorted(keys): ascending by Python's string order.
RECURSIVE sorted(_)
sorted(keys) ==
    IF keys = {} THEN <<>>
    ELSE LET first == CHOOSE k \in keys : \A o \in keys \ {k} : StrLess(k, o)
         IN  <<first>> \o sorted(keys \ {first})

calculate_month_over_month_change_unguarded(monthly_totals) ==
    LET months == sorted(DOMAIN monthly_totals) IN
    IF Len(months) < 2 THEN None
    ELSE LET changes ==
                 [i \in 1..(Len(months) - 1) |->
                     LET previous_month  == months[i]
                         current_month   == months[i + 1]
                         previous_amount == monthly_totals[previous_month]
                         current_amount  == monthly_totals[current_month]
                         change          == Sub(current_amount, previous_amount)
                     IN  [from |-> previous_month, to |-> current_month,
                          change |-> change,
                          percent_change |-> Mul(Div(change, previous_amount), R(100))]]
         IN  IF \E i \in DOMAIN changes : IsErr(changes[i].percent_change)
             THEN Raised ELSE Value(changes)

calculate_month_over_month_change_short(monthly_totals) ==
    LET months == sorted(DOMAIN monthly_totals) IN
    IF Len(months) < 2 THEN None
    ELSE LET changes ==
                 [i \in 1..(Len(months) - 2) |->
                     LET previous_month  == months[i]
                         current_month   == months[i + 1]
                         previous_amount == monthly_totals[previous_month]
                         current_amount  == monthly_totals[current_month]
                         change          == Sub(current_amount, previous_amount)
                     IN  [from |-> previous_month, to |-> current_month,
                          change |-> change,
                          percent_change |->
                              IF previous_amount # R(0)
                              THEN Mul(Div(change, previous_amount), R(100))
                              ELSE R(0)]]
         IN  Value(changes)

calculate_month_over_month_change(monthly_totals) ==
    LET months == sorted(DOMAIN monthly_totals) IN
    IF Len(months) < 2 THEN None
    ELSE LET changes ==
                 [i \in 1..(Len(months) - 1) |->
                     LET previous_month  == months[i]
                         current_month   == months[i + 1]
                         previous_amount == monthly_totals[previous_month]
                         current_amount  == monthly_totals[current_month]
                         change          == Sub(current_amount, previous_amount)
                     IN  [from |-> previous_month, to |-> current_month,
                          change |-> change,
                          percent_change |->
                              IF previous_amount # R(0)
                              THEN Mul(Div(change, previous_amount), R(100))
                              ELSE R(0)]]
         IN  IF \E i \in DOMAIN changes : IsErr(changes[i].percent_change)
             THEN Raised ELSE Value(changes)

-----------------------------------------------------------------------------
(* Run-rate projector.  expenses is the list of rows; a row's date is the  *)
(* text "YYYY-MM-DD".                                                      *)

max(S) == CHOOSE x \in S : \A y \in S : y <= x

\* The loop of predict_monthly_spending over the first n rows.
RECURSIVE predict_monthly_spending_loop(_, _, _)
predict_monthly_spending_loop(expenses, target_month, n) ==
    IF n = 0 THEN [total_spent_so_far |-> R(0), days_with_data |-> {}]
    ELSE LET acc       == predict_monthly_spending_loop(expenses, target_month, n - 1)
             date_obj  == strptime(expenses[n].date)
             month_key == strftime_Ym(date_obj)
         IN  IF month_key = target_month
             THEN [total_spent_so_far |-> Add(acc.total_spent_so_far, expenses[n].amount),
                   days_with_data     |-> acc.days_with_data \cup {date_obj.day}]
             ELSE acc

predict_monthly_spending_count(expenses, target_month) ==
    LET acc == predict_monthly_spending_loop(expenses, target_month, Len(expenses)) IN
    IF acc.days_with_data = {} THEN None
    ELSE LET latest_day          == Cardinality(acc.days_with_data)
             average_daily_spend == Div(acc.total_spent_so_far, R(latest_day))
             days_in_month       == days_in_month_of(target_month)
             predicted_total     == Mul(average_daily_spend, R(days_in_month))
         IN  IF IsErr(predicted_total) THEN Raised
             ELSE Value(<<acc.total_spent_so_far, predicted_total>>)

predict_monthly_spending(expenses, target_month) ==
    LET acc == predict_monthly_spending_loop(expenses, target_month, Len(expenses)) IN
    IF acc.days_with_data = {} THEN None
    ELSE LET latest_day          == max(acc.days_with_data)
             average_daily_spend == Div(acc.total_spent_so_far, R(latest_day))
             days_in_month       == days_in_month_of(target_month)
             predicted_total     == Mul(average_daily_spend, R(days_in_month))
         IN  IF IsErr(predicted_total) THEN Raised
             ELSE Value(<<acc.total_spent_so_far, predicted_total>>)

evaluate_prediction(predicted, actual) ==
    LET error         == Sub(predicted, actual)
        percent_error == IF actual # R(0) THEN Mul(Div(error, actual), R(100)) ELSE R(0)
    IN  IF IsErr(percent_error) THEN Raised ELSE Value(<<error, percent_error>>)

\* The loop of predict_mid_month over the first n rows.
RECURSIVE predict_mid_month_loop(_, _, _, _)
predict_mid_month_loop(expenses, target_month, cutoff_day, n) ==
    IF n = 0 THEN R(0)
    ELSE LET spent     == predict_mid_month_loop(expenses, target_month, cutoff_day, n - 1)
             date_obj  == strptime(expenses[n].date)
             month_key == strftime_Ym(date_obj)
         IN  IF month_key = target_month /\ date_obj.day <= cutoff_day
             THEN Add(spent, expenses[n].amount)
             ELSE spent

predict_mid_month_norows(expenses, target_month, cutoff_day) ==
    LET spent_until_cutoff ==
            predict_mid_month_loop(expenses, target_month, cutoff_day, Len(expenses))
        matched == {n \in 1..Len(expenses) :
                       /\ strftime_Ym(strptime(expenses[n].date)) = target_month
                       /\ strptime(expenses[n].date).day <= cutoff_day}
    IN
    IF matched = {} THEN None
    ELSE LET days_in_month       == days_in_month_of(target_month)
             average_daily_spend == Div(spent_until_cutoff, R(cutoff_day))
             predicted_total     == Mul(average_daily_spend, R(days_in_month))
         IN  IF IsErr(predicted_total) THEN Raised ELSE Value(predicted_total)

predict_mid_month_latest(expenses, target_month, cutoff_day) ==
    LET spent_until_cutoff ==
            predict_mid_month_loop(expenses, target_month, cutoff_day, Len(expenses))
        days == {strptime(expenses[n].date).day : n \in
                    {k \in 1..Len(expenses) :
                        /\ strftime_Ym(strptime(expenses[k].date)) = target_month
                        /\ strptime(expenses[k].date).day <= cutoff_day}}
    IN
    IF spent_until_cutoff = R(0) THEN None
    ELSE LET days_in_month       == days_in_month_of(target_month)
             average_daily_spend == Div(spent_until_cutoff, R(max(days)))
             predicted_total     == Mul(average_daily_spend, R(days_in_month))
         IN  IF IsErr(predicted_total) THEN Raised ELSE Value(predicted_total)

predict_mid_month(expenses, target_month, cutoff_day) ==
    LET spent_until_cutoff ==
            predict_mid_month_loop(expenses, target_month, cutoff_day, Len(expenses))
    IN
    IF spent_until_cutoff = R(0) THEN None
    ELSE LET days_in_month       == days_in_month_of(target_month)
             average_daily_spend == Div(spent_until_cutoff, R(cutoff_day))
             predicted_total     == Mul(average_daily_spend, R(days_in_month))
         IN  IF IsErr(predicted_total) THEN Raised ELSE Value(predicted_total)

-----------------------------------------------------------------------------
(* Budget evaluator.  budgets is the dict in insertion order: a sequence   *)
(* of <<category, budget>> pairs with distinct categories.  An alert text  *)
(* is kept as the values it formats.                                       *)

\* dict.get(key, default)
get(d, key, default) == IF key \in DOMAIN d THEN d[key] ELSE default

\* The loop of evaluate_budgets over the first n budgets.
RECURSIVE evaluate_budgets_loop(_, _, _)
evaluate_budgets_loop(month_data, budgets, n) ==
    IF n = 0 THEN <<>>
    ELSE LET alerts   == evaluate_budgets_loop(month_data, budgets, n - 1)
             category == budgets[n][1]
             budget   == budgets[n][2]
             spent    == get(month_data, category, R(0))
             pct_used == IF Gt(budget, R(0)) THEN Mul(Div(spent, budget), R(100)) ELSE R(0)
         IN  IF Ge(pct_used, R(100))
             THEN Append(alerts, [kind |-> "ALERT", category |-> category,
                                  spent |-> spent, budget |-> budget, pct_used |-> pct_used])
             ELSE IF Ge(pct_used, R(80))
             THEN Append(alerts, [kind |-> "Warning", category |-> category,
                                  spent |-> spent, budget |-> budget, pct_used |-> pct_used])
             ELSE alerts

RECURSIVE evaluate_budgets_loop_strict(_, _, _)
evaluate_budgets_loop_strict(month_data, budgets, n) ==
    IF n = 0 THEN <<>>
    ELSE LET alerts   == evaluate_budgets_loop_strict(month_data, budgets, n - 1)
             category == budgets[n][1]
             budget   == budgets[n][2]
             spent    == get(month_data, category, R(0))
             pct_used == IF Gt(budget, R(0)) THEN Mul(Div(spent, budget), R(100)) ELSE R(0)
         IN  IF Gt(pct_used, R(100))
             THEN Append(alerts, [kind |-> "ALERT", category |-> category,
                                  spent |-> spent, budget |-> budget, pct_used |-> pct_used])
             ELSE IF Ge(pct_used, R(80))
             THEN Append(alerts, [kind |-> "Warning", category |-> category,
                                  spent |-> spent, budget |-> budget, pct_used |-> pct_used])
             ELSE alerts

evaluate_budgets_strict(monthly_category_totals, current_month, budgets) ==
    LET month_data == get(monthly_category_totals, current_month, <<>>)
        alerts     == evaluate_budgets_loop_strict(month_data, budgets, Len(budgets))
    IN  IF \E i \in DOMAIN alerts : IsErr(alerts[i].pct_used) THEN Raised ELSE Value(alerts)

evaluate_budgets(monthly_category_totals, current_month, budgets) ==
    LET month_data == get(monthly_category_totals, current_month, <<>>)
        alerts     == evaluate_budgets_loop(month_data, budgets, Len(budgets))
    IN  IF \E i \in DOMAIN alerts : IsErr(alerts[i].pct_used) THEN Raised ELSE Value(alerts)

-----------------------------------------------------------------------------
(* Baseline estimator.                                                     *)

\* months[-months_back:]
last_slice(months, months_back) ==
    IF months_back = 0 THEN months
    ELSE SubSeq(months, Len(months) - months_back + 1, Len(months))

\* sum(abs(v) for cat, v in cat_map.items() if cat != "Rent"), over the keys cats.
RECURSIVE nonrent_total(_, _)
nonrent_total(cat_map, cats) ==
    IF cats = {} THEN R(0)
    ELSE LET cat == CHOOSE c \in cats : TRUE
             rest == nonrent_total(cat_map, cats \ {cat})
         IN  IF cat # "Rent" THEN Add(AbsR(cat_map[cat]), rest) ELSE rest

\* sum(monthly_spend_values)
RECURSIVE sum_of(_)
sum_of(values) ==
    IF values = <<>> THEN R(0)
    ELSE Add(sum_of(SubSeq(values, 1, Len(values) - 1)), values[Len(values)])

estimate_baseline_nonrent_spending_earliest(monthly_category_totals, months_back) ==
    LET months == sorted(DOMAIN monthly_category_totals)
        recent_months == IF Len(months) >= months_back
                         THEN SubSeq(months, 1, months_back)
                         ELSE months
    IN
    IF recent_months = <<>> THEN Value(<<R(0), <<>>>>)
    ELSE LET monthly_spend_values ==
                 [i \in 1..Len(recent_months) |->
                     LET cat_map == get(monthly_category_totals, recent_months[i], <<>>)
                     IN  nonrent_total(cat_map, DOMAIN cat_map)]
             avg_nonrent == Div(sum_of(monthly_spend_values), R(Len(monthly_spend_values)))
         IN  IF IsErr(avg_nonrent) THEN Raised ELSE Value(<<avg_nonrent, recent_months>>)

estimate_baseline_nonrent_spending(monthly_category_totals, months_back) ==
    LET months == sorted(DOMAIN monthly_category_totals)
        recent_months == IF Len(months) >= months_back
                         THEN last_slice(months, months_back)
                         ELSE months
    IN
    IF recent_months = <<>> THEN Value(<<R(0), <<>>>>)
    ELSE LET monthly_spend_values ==
                 [i \in 1..Len(recent_months) |->
                     LET cat_map == get(monthly_category_totals, recent_months[i], <<>>)
                     IN  nonrent_total(cat_map, DOMAIN cat_map)]
             avg_nonrent == Div(sum_of(monthly_spend_values), R(Len(monthly_spend_values)))
         IN  IF IsErr(avg_nonrent) THEN Raised ELSE Value(<<avg_nonrent, recent_months>>)

-----------------------------------------------------------------------------
(* Aggregator.  Each loop is taken over the first n rows.                  *)

RECURSIVE calculate_total_spent_loop(_, _)
calculate_total_spent_loop(expenses, n) ==
    IF n = 0 THEN R(0)
    ELSE Add(calculate_total_spent_loop(expenses, n - 1), expenses[n].amount)

calculate_total_spent(expenses) ==
    Value(calculate_total_spent_loop(expenses, Len(expenses)))

\* d[key] += amount if key in d else d[key] = amount
accumulate(d, key, amount) ==
    IF key \in DOMAIN d
    THEN [d EXCEPT ![key] = Add(@, amount)]
    ELSE d @@ (key :> amount)

RECURSIVE calculate_category_totals_loop_overwrite(_, _)
calculate_category_totals_loop_overwrite(expenses, n) ==
    IF n = 0 THEN <<>>
    ELSE LET category_totals == calculate_category_totals_loop_overwrite(expenses, n - 1)
             category        == expenses[n].category
             amount          == expenses[n].amount
         IN  IF category \in DOMAIN category_totals
             THEN [category_totals EXCEPT ![category] = amount]
             ELSE category_totals @@ (category :> amount)

calculate_category_totals_overwrite(expenses) ==
    Value(calculate_category_totals_loop_overwrite(expenses, Len(expenses)))

RECURSIVE calculate_category_totals_loop(_, _)
calculate_category_totals_loop(expenses, n) ==
    IF n = 0 THEN <<>>
    ELSE LET category_totals == calculate_category_totals_loop(expenses, n - 1)
             category        == expenses[n].category
             amount          == expenses[n].amount
         IN  accumulate(category_totals, category, amount)

calculate_category_totals(expenses) ==
    Value(calculate_category_totals_loop(expenses, Len(expenses)))

RECURSIVE calculate_monthly_totals_loop(_, _)
calculate_monthly_totals_loop(expenses, n) ==
    IF n = 0 THEN <<>>
    ELSE LET monthly_totals == calculate_monthly_totals_loop(expenses, n - 1)
             date_obj       == strptime(expenses[n].date)
             month_key      == strftime_Ym(date_obj)
         IN  accumulate(monthly_totals, month_key, expenses[n].amount)

calculate_monthly_totals(expenses) ==
    Value(calculate_monthly_totals_loop(expenses, Len(expenses)))

RECURSIVE calculate_monthly_category_totals_loop(_, _)
calculate_monthly_category_totals_loop(expenses, n) ==
    IF n = 0 THEN <<>>
    ELSE LET totals    == calculate_monthly_category_totals_loop(expenses, n - 1)
             date_obj  == strptime(expenses[n].date)
             month_key == strftime_Ym(date_obj)
             category  == expenses[n].category
             amount    == expenses[n].amount
             with_month == IF month_key \notin DOMAIN totals
                           THEN totals @@ (month_key :> <<>>)
                           ELSE totals
         IN  [with_month EXCEPT ![month_key] = accumulate(@, category, amount)]

calculate_monthly_category_totals(expenses) ==
    Value(calculate_monthly_category_totals_loop(expenses, Len(expenses)))

-----------------------------------------------------------------------------
(* Insights.  all_categories is a Python set of str: the order in which    *)
(* the loop meets its members depends on the interpreter's string hashing, *)
(* which varies from run to run.  order is that order: a sequence holding  *)
(* each member once.  An insight text is kept as the values it formats.    *)

\* The loop over all_categories, in the given order, after n members.
RECURSIVE biggest_category_loop(_, _, _, _)
biggest_category_loop(prev_cats, curr_cats, order, n) ==
    IF n = 0 THEN [biggest_cat |-> None, biggest_delta |-> R(0)]
    ELSE LET acc == biggest_category_loop(prev_cats, curr_cats, order, n - 1)
             cat == order[n]
             d   == Sub(get(curr_cats, cat, R(0)), get(prev_cats, cat, R(0)))
         IN  IF Gt(AbsR(d), AbsR(acc.biggest_delta))
             THEN [biggest_cat |-> Value(cat), biggest_delta |-> d]
             ELSE acc

RECURSIVE biggest_category_loop_signed(_, _, _, _)
biggest_category_loop_signed(prev_cats, curr_cats, order, n) ==
    IF n = 0 THEN [biggest_cat |-> None, biggest_delta |-> R(0)]
    ELSE LET acc == biggest_category_loop_signed(prev_cats, curr_cats, order, n - 1)
             cat == order[n]
             d   == Sub(get(curr_cats, cat, R(0)), get(prev_cats, cat, R(0)))
         IN  IF Gt(d, acc.biggest_delta)
             THEN [biggest_cat |-> Value(cat), biggest_delta |-> d]
             ELSE acc

\* "up" / "down" / "flat" and "increased" / "decreased" / "stayed the same"
sign_word(x, pos, neg, zero) ==
    IF Gt(x, R(0)) THEN pos ELSE IF Lt(x, R(0)) THEN neg ELSE zero

generate_insights_signed(monthly_totals, monthly_category_totals, current_month, predicted_total, order) ==
    LET months == sorted(DOMAIN monthly_totals)
        trend ==
            IF Len(months) >= 2
            THEN LET prev_month == months[Len(months) - 1]
                     curr_total == monthly_totals[current_month]
                     prev_total == monthly_totals[prev_month]
                     delta      == Sub(curr_total, prev_total)
                     pct        == IF prev_total # R(0)
                                   THEN Mul(Div(delta, prev_total), R(100)) ELSE R(0)
                     overall    == [kind |-> "overall",
                                    direction |-> sign_word(delta, "up", "down", "flat"),
                                    prev_month |-> prev_month, delta |-> delta, pct |-> pct]
                     prev_cats  == get(monthly_category_totals, prev_month, <<>>)
                     curr_cats  == get(monthly_category_totals, current_month, <<>>)
                     all_categories == DOMAIN prev_cats \cup DOMAIN curr_cats
                     found      == biggest_category_loop_signed(prev_cats, curr_cats, order,
                                                                Len(order))
                 IN  IF all_categories # {} /\ found.biggest_cat.tag # "None"
                     THEN <<overall,
                            [kind |-> "biggest", cat |-> found.biggest_cat.val,
                             change_word |-> sign_word(found.biggest_delta, "increased",
                                                       "decreased", "stayed the same"),
                             delta |-> found.biggest_delta, prev_month |-> prev_month]>>
                     ELSE <<overall>>
            ELSE <<>>
        projection ==
            IF predicted_total.tag # "None"
            THEN LET actual_so_far == monthly_totals[current_month]
                     remaining     == Sub(predicted_total.val, actual_so_far)
                 IN  <<[kind |-> "projection", actual_so_far |-> actual_so_far,
                        current_month |-> current_month,
                        predicted_total |-> predicted_total.val,
                        remaining |-> remaining]>>
            ELSE <<>>
    IN  Value(trend \o projection)

generate_insights(monthly_totals, monthly_category_totals, current_month, predicted_total, order) ==
    LET months == sorted(DOMAIN monthly_totals)
        trend ==
            IF Len(months) >= 2
            THEN LET prev_month == months[Len(months) - 1]
                     curr_total == monthly_totals[current_month]
                     prev_total == monthly_totals[prev_month]
                     delta      == Sub(curr_total, prev_total)
                     pct        == IF prev_total # R(0)
                                   THEN Mul(Div(delta, prev_total), R(100)) ELSE R(0)
                     overall    == [kind |-> "overall",
                                    direction |-> sign_word(delta, "up", "down", "flat"),
                                    prev_month |-> prev_month, delta |-> delta, pct |-> pct]
                     prev_cats  == get(monthly_category_totals, prev_month, <<>>)
                     curr_cats  == get(monthly_category_totals, current_month, <<>>)
                     all_categories == DOMAIN prev_cats \cup DOMAIN curr_cats
                     found      == biggest_category_loop(prev_cats, curr_cats, order,
                                                         Len(order))
                 IN  IF all_categories # {} /\ found.biggest_cat.tag # "None"
                     THEN <<overall,
                            [kind |-> "biggest", cat |-> found.biggest_cat.val,
                             change_word |-> sign_word(found.biggest_delta, "increased",
                                                       "decreased", "stayed the same"),
                             delta |-> found.biggest_delta, prev_month |-> prev_month]>>
                     ELSE <<overall>>
            ELSE <<>>
        projection ==
            IF predicted_total.tag # "None"
            THEN LET actual_so_far == monthly_totals[current_month]
                     remaining     == Sub(predicted_total.val, actual_so_far)
                 IN  <<[kind |-> "projection", actual_so_far |-> actual_so_far,
                        current_month |-> current_month,
                        predicted_total |-> predicted_total.val,
                        remaining |-> remaining]>>
            ELSE <<>>
    IN  Value(trend \o projection)

\* The orders in which a set's members can be met.
iteration_orders(S) ==
    {o \in [1..Cardinality(S) -> S] : \A i, j \in DOMAIN o : i # j => o[i] # o[j]}

\* all_categories of generate_insights for the given arguments.
all_categories_of(monthly_totals, monthly_category_totals, current_month) ==
    LET months == sorted(DOMAIN monthly_totals) IN
    IF Len(months) >= 2
    THEN DOMAIN get(monthly_category_totals, months[Len(months) - 1], <<>>)
             \cup DOMAIN get(monthly_category_totals, current_month, <<>>)
    ELSE {}

-----------------------------------------------------------------------------
(* Budgets of a month and the command-line pipeline.  A budgets dict is a  *)
(* sequence of <<category, ceiling>> pairs in insertion order.             *)

DEFAULT_BUDGETS ==
    <<<<"Food", R(400)>>, <<"Transport", R(250)>>, <<"Entertainment", R(200)>>>>

MONTHLY_BUDGET_OVERRIDES ==
    (MonthKey(2026, 3) :> <<<<"Rent", R(1400)>>>>) @@
    (MonthKey(2026, 4) :> <<<<"Rent", R(1400)>>>>)

RENT_START ==
    [month |-> MonthKey(2026, 2), start_day |-> 14, full_month_amount |-> R(1400)]

\* budgets[key] = value: in place when the key is present, appended otherwise.
setitem(budgets, key, value) ==
    IF \E i \in DOMAIN budgets : budgets[i][1] = key
    THEN [i \in DOMAIN budgets |->
             IF budgets[i][1] = key THEN <<key, value>> ELSE budgets[i]]
    ELSE Append(budgets, <<key, value>>)

\* budgets.update(other), over the first n pairs of other.
RECURSIVE update(_, _, _)
update(budgets, other, n) ==
    IF n = 0 THEN budgets
    ELSE setitem(update(budgets, other, n - 1), other[n][1], other[n][2])

get_budgets_for_month(month_key) ==
    LET overrides == get(MONTHLY_BUDGET_OVERRIDES, month_key, <<>>)
        budgets   == update(DEFAULT_BUDGETS, overrides, Len(overrides))
    IN  IF month_key = RENT_START.month
        THEN setitem(budgets, "Rent",
                     prorated_rent_budget(month_key, RENT_START.start_day,
                                          RENT_START.full_month_amount))
        ELSE budgets

of_type(r, type) == r.type = type

split_income_and_expenses(rows) ==
    LET is_income(r)  == of_type(r, "income")
        is_expense(r) == of_type(r, "expense")
    IN  <<SelectSeq(rows, is_income), SelectSeq(rows, is_expense)>>

\* max() of a set of month keys.
max_key(keys) == LET months == sorted(keys) IN months[Len(months)]

\* main(), from the rows the loader returns to the values behind the baseline
\* line and the budget alerts it prints.
main(rows) ==
    LET expense_rows == split_income_and_expenses(rows)[2]
    IN
    IF Len(expense_rows) = 0 THEN [tag |-> "ValueError"]
    ELSE LET monthly_expense_totals  == calculate_monthly_totals(expense_rows).val
             monthly_category_totals == calculate_monthly_category_totals(expense_rows).val
             current_month == max_key(DOMAIN monthly_expense_totals)
             baseline == estimate_baseline_nonrent_spending(monthly_category_totals, 2)
             budgets_for_current_month == get_budgets_for_month(current_month)
             budget_alerts == evaluate_budgets(monthly_category_totals, current_month,
                                               budgets_for_current_month)
         IN  IF baseline.tag # "value" THEN baseline
             ELSE IF budget_alerts.tag # "value" THEN budget_alerts
             ELSE Value([monthly_category_totals |-> monthly_category_totals,
                         current_month |-> current_month,
                         baseline_nonrent |-> baseline.val[1],
                         expense_months_used |-> baseline.val[2],
                         budgets_for_current_month |-> budgets_for_current_month,
                         budget_alerts |-> budget_alerts.val])

-----------------------------------------------------------------------------
(* app.py: the script's load step, sanity check and core metrics.  The     *)
(* script's namespace is a record; a name no statement has assigned yet is *)
(* Unbound, and reading it raises NameError.                               *)

Unbound == [tag |-> "unbound"]

NameError == [tag |-> "NameError"]

\* st.stop(): the run ends here.
Stopped == [tag |-> "stopped"]

\* The rows of the first n uploaded files, one after another.
RECURSIVE load_rows_from_uploaded_csvs_loop(_, _)
load_rows_from_uploaded_csvs_loop(uploaded_files, n) ==
    IF n = 0 THEN <<>>
    ELSE load_rows_from_uploaded_csvs_loop(uploaded_files, n - 1) \o uploaded_files[n].rows

load_rows_from_uploaded_csvs(uploaded_files) ==
    load_rows_from_uploaded_csvs_loop(uploaded_files, Len(uploaded_files))

\* Lines 85-99.  data_folder is what the folder holds: "missing" when it is no
\* directory, "unreadable" when load_all_monthly_csvs raises, else its rows.
load_data(uploaded_files, data_folder) ==
    IF Len(uploaded_files) > 0
    THEN Value([rows |-> Value(load_rows_from_uploaded_csvs(uploaded_files)),
                income_rows |-> Unbound,
                expense_rows |-> Unbound])
    ELSE IF data_folder.tag = "missing" THEN Stopped
    ELSE IF data_folder.tag = "unreadable" THEN Stopped
    ELSE LET rows  == data_folder.val
             pair == split_income_and_expenses(rows)
         IN  Value([rows |-> Value(rows),
                    income_rows |-> Value(pair[1]),
                    expense_rows |-> Value(pair[2])])

\* Lines 102-107.
sanity_check(namespace) ==
    IF namespace.rows.tag = "unbound" THEN NameError
    ELSE IF namespace.income_rows.tag = "unbound" THEN NameError
    ELSE IF namespace.expense_rows.tag = "unbound" THEN NameError
    ELSE IF Len(namespace.expense_rows.val) = 0 THEN Stopped
    ELSE Value(namespace)

\* Lines 112-120.
core_metrics(namespace) ==
    IF namespace.income_rows.tag = "unbound" THEN NameError
    ELSE IF namespace.expense_rows.tag = "unbound" THEN NameError
    ELSE LET total_income       == calculate_total_spent(namespace.income_rows.val).val
             total_expenses_raw == calculate_total_spent(namespace.expense_rows.val).val
             total_expenses     == AbsR(total_expenses_raw)
             net_cash_flow      == Add(total_income, total_expenses_raw)
         IN  Value([total_income |-> total_income,
                    total_expenses |-> total_expenses,
                    net_cash_flow |-> net_cash_flow])

-----------------------------------------------------------------------------
(* Bounded inputs.                                                         *)

Years == {1900, 2000, 2024, 2026}

Months == {2, 4, 10, 12}

MonthKeys == {MonthKey(y, m) : y \in Years, m \in Months}

StartDays == 1..31

FullMonthAmounts == {R(0), R(40), R(1400)}

PaycheckAmounts == {R(0), R(1650)}

PaychecksPerMonth == {R(0), R(2)}

Baselines == {R(0), R(45), R(3000)}

IncomeOverrideValues == {R(0), R(100)}

UiStartDays == {1, 14}

UiSettings ==
    [use_income_override   : BOOLEAN,
     income_override_value : IncomeOverrideValues,
     rent_amount           : FullMonthAmounts \ {R(0)},
     rent_start_month      : MonthKeys,
     rent_start_day        : UiStartDays,
     baseline_nonrent      : Baselines]

ArbitraryReports ==
    [month                  : {RENT_START_MONTH},
     projected_income       : {R(-1), R(0), R(100)},
     baseline_nonrent_spend : {R(0)},
     projected_rent         : {R(0)},
     projected_total_spend  : {R(0)},
     projected_net          : {R(-1), R(0), R(1)},
     rent_pct_income        : {R(39), R(40), R(41)},
     spend_pct_income       : {R(84), R(85), R(86)}]

MaxMonths == 3

MaxRows == 3

MaxBudgets == 2

TotalsKeys ==
    {MonthKey(1900, 12), MonthKey(2000, 2), MonthKey(2024, 10),
     MonthKey(2026, 2), MonthKey(2026, 4)}

TotalValues == {R(-100), R(0), R(300)}

MonthlyTotalsDicts ==
    UNION {[K -> TotalValues] : K \in {S \in SUBSET TotalsKeys : Cardinality(S) <= MaxMonths}}

RowDates ==
    {DateText(2026, 4, 5), DateText(2026, 4, 10), DateText(2026, 4, 20),
     DateText(2024, 2, 29)}

Rows ==
    [date : RowDates, description : {""}, amount : {R(100), R(-100)},
     type : {"expense"}, category : {"Food"}]

RowLists == UNION {[1..k -> Rows] : k \in 0..MaxRows}

TargetMonths == {MonthKey(2026, 4), MonthKey(2024, 2)}

CutoffDays == {0, 10, 15}

PredictedValues == {R(-100), R(0), R(200), R(300)}

BudgetCategories == {"Food", "Transport", "Entertainment"}

Ceilings == {R(400), R(0), R(-400)}

BudgetDicts ==
    {b \in UNION {[1..k -> BudgetCategories \X Ceilings] : k \in 0..MaxBudgets} :
        \A i, j \in DOMAIN b : i # j => b[i][1] # b[j][1]}

SpendCategories == {"Food", "Misc"}

Spends == {R(100), R(320), R(350), R(400), R(420), R(-350)}

MonthDataDicts == UNION {[C -> Spends] : C \in SUBSET SpendCategories}

BudgetMonths == {MonthKey(2026, 3), MonthKey(2026, 4)}

MonthlyCategoryTotalsDicts ==
    {<<>>} \cup {k :> md : k \in BudgetMonths, md \in MonthDataDicts}

MaxWindow == 3

BaselineKeys == {MonthKey(2024, 12), MonthKey(2026, 2), MonthKey(2026, 10)}

BaselineMonthData ==
    UNION {[C -> {R(-100), R(60)}] : C \in SUBSET {"Rent", "Food"}}
        \cup {[c \in {"rent", "Food"} |-> R(-100)]}

BaselineDicts == UNION {[K -> BaselineMonthData] : K \in SUBSET BaselineKeys}

AggregateRows ==
    [date : {DateText(2026, 3, 5), DateText(2026, 4, 10)}, description : {""},
     amount : {R(100), R(-40)}, type : {"expense"}, category : {"", "Food"}]

AggregateRowLists == UNION {[1..k -> AggregateRows] : k \in 0..MaxRows}


\* Rows behind the insights: three months, two categories.
InsightDates == {DateText(2025, 12, 20), DateText(2026, 3, 5), DateText(2026, 4, 10)}
InsightCategories == {"Food", "Transport"}
InsightRows ==
    {[date |-> d, category |-> c, amount |-> R(100)] :
        d \in InsightDates, c \in InsightCategories}
InsightRowLists == UNION {[1..n -> InsightRows] : n \in 1..MaxRows}
InsightPredictions == {None, Value(R(300))}

\* Rows the loader can return: expenses entered as negative or as positive
\* amounts, and a paycheck.
MainDates == {DateText(2026, 2, 20), DateText(2026, 3, 5)}
MainCategories == {"Food", "Rent"}
MainAmounts == {R(-420), R(420)}
MainRows ==
    {[date |-> d, category |-> c, amount |-> a, type |-> "expense"] :
        d \in MainDates, c \in MainCategories, a \in MainAmounts}
    \cup {[date |-> DateText(2026, 3, 5), category |-> "Salary",
           amount |-> R(3300), type |-> "income"]}
MainRowLists == UNION {[1..n -> MainRows] : n \in 0..MaxRows}

\* What an uploaded file or the data folder can hold.
AppRows ==
    {[date |-> DateText(2026, 3, 5), category |-> "Food", amount |-> R(-420),
      type |-> "expense"],
     [date |-> DateText(2026, 2, 20), category |-> "Rent", amount |-> R(-1400),
      type |-> "expense"],
     [date |-> DateText(2026, 3, 5), category |-> "Salary", amount |-> R(3300),
      type |-> "income"]}
AppRowLists == UNION {[1..n -> AppRows] : n \in 0..MaxRows}
AppShortRowLists == {<<>>} \cup {<<r>> : r \in AppRows}
UploadedFiles ==
    {<<[name |-> "2026-03.csv", rows |-> rs]>> : rs \in AppRowLists}
    \cup {<<[name |-> "2026-03.csv", rows |-> rs], [name |-> "2026-02.csv", rows |-> more]>> :
            rs \in AppRowLists, more \in AppShortRowLists}
DataFolders ==
    {[tag |-> "missing"], [tag |-> "unreadable"]} \cup {Value(rs) : rs \in AppRowLists}
-----------------------------------------------------------------------------
(* The state machine: op is the function last called, args its arguments,  *)
(* ret what it returned.                                                   *)

Init ==
    /\ op = "idle"
    /\ args = <<>>
    /\ ret = None

ProrateMonthlyAmount ==
    /\ op = "idle"
    /\ \E month_key \in MonthKeys, start_day \in StartDays, amount \in FullMonthAmounts :
          /\ op' = "prorate_monthly_amount"
          /\ args' = [month_key |-> month_key, start_day |-> start_day,
                      full_month_amount |-> amount]
          /\ ret' = Value(prorate_monthly_amount(month_key, start_day, amount))

ProratedRentBudget ==
    /\ op = "idle"
    /\ \E month_key \in MonthKeys, start_day \in StartDays, amount \in FullMonthAmounts :
          /\ op' = "prorated_rent_budget"
          /\ args' = [month_key |-> month_key, start_day |-> start_day,
                      full_month_amount |-> amount]
          /\ ret' = Value(prorated_rent_budget(month_key, start_day, amount))

RentAffordabilityReport ==
    /\ op = "idle"
    /\ \E target_month \in MonthKeys, pay \in PaycheckAmounts,
          n \in PaychecksPerMonth, baseline \in Baselines :
          /\ op' = "rent_affordability_report"
          /\ args' = [target_month |-> target_month, avg_paycheck_amount |-> pay,
                      avg_paychecks_per_month |-> n, baseline_nonrent_spend |-> baseline]
          /\ ret' = Value(rent_affordability_report(target_month, pay, n, baseline))

AffordabilityWithUiOverride ==
    /\ op = "idle"
    /\ \E target_month \in MonthKeys, ui \in UiSettings :
          /\ op' = "affordability_with_ui_override"
          /\ args' = [target_month |-> target_month, ui |-> ui]
          /\ ret' = Value(affordability_with_ui_override(target_month, ui))

\* render_affordability_card(rep): the status of a report the dashboard built.
RenderAffordabilityCard ==
    /\ op = "affordability_with_ui_override"
    /\ op' = "render_affordability_card"
    /\ args' = [rep |-> ret.val]
    /\ ret' = Value(status_label(ret.val))

StatusLabel ==
    /\ op = "idle"
    /\ \E rep \in ArbitraryReports :
          /\ op' = "status_label"
          /\ args' = [rep |-> rep]
          /\ ret' = Value(status_label(rep))

CalculateMonthOverMonthChange ==
    /\ op = "idle"
    /\ \E monthly_totals \in MonthlyTotalsDicts :
          /\ op' = "calculate_month_over_month_change"
          /\ args' = [monthly_totals |-> monthly_totals]
          /\ ret' = calculate_month_over_month_change(monthly_totals)

PredictMonthlySpending ==
    /\ op = "idle"
    /\ \E expenses \in RowLists, target_month \in TargetMonths :
          /\ op' = "predict_monthly_spending"
          /\ args' = [expenses |-> expenses, target_month |-> target_month]
          /\ ret' = predict_monthly_spending(expenses, target_month)

EvaluatePrediction ==
    /\ op = "idle"
    /\ \E predicted \in PredictedValues, actual \in PredictedValues :
          /\ op' = "evaluate_prediction"
          /\ args' = [predicted |-> predicted, actual |-> actual]
          /\ ret' = evaluate_prediction(predicted, actual)

PredictMidMonth ==
    /\ op = "idle"
    /\ \E expenses \in RowLists, target_month \in TargetMonths, cutoff_day \in CutoffDays :
          /\ op' = "predict_mid_month"
          /\ args' = [expenses |-> expenses, target_month |-> target_month,
                      cutoff_day |-> cutoff_day]
          /\ ret' = predict_mid_month(expenses, target_month, cutoff_day)

EvaluateBudgets ==
    /\ op = "idle"
    /\ \E monthly_category_totals \in MonthlyCategoryTotalsDicts, budgets \in BudgetDicts :
          /\ op' = "evaluate_budgets"
          /\ args' = [monthly_category_totals |-> monthly_category_totals,
                      current_month |-> MonthKey(2026, 4), budgets |-> budgets]
          /\ ret' = evaluate_budgets(monthly_category_totals, MonthKey(2026, 4), budgets)

EstimateBaselineNonrentSpending ==
    /\ op = "idle"
    /\ \E monthly_category_totals \in BaselineDicts, months_back \in 1..MaxWindow :
          /\ op' = "estimate_baseline_nonrent_spending"
          /\ args' = [monthly_category_totals |-> monthly_category_totals,
                      months_back |-> months_back]
          /\ ret' = estimate_baseline_nonrent_spending(monthly_category_totals, months_back)

CalculateTotalSpent ==
    /\ op = "idle"
    /\ \E expenses \in AggregateRowLists :
          /\ op' = "calculate_total_spent"
          /\ args' = [expenses |-> expenses]
          /\ ret' = calculate_total_spent(expenses)

CalculateCategoryTotals ==
    /\ op = "idle"
    /\ \E expenses \in AggregateRowLists :
          /\ op' = "calculate_category_totals"
          /\ args' = [expenses |-> expenses]
          /\ ret' = calculate_category_totals(expenses)

CalculateMonthlyTotals ==
    /\ op = "idle"
    /\ \E expenses \in AggregateRowLists :
          /\ op' = "calculate_monthly_totals"
          /\ args' = [expenses |-> expenses]
          /\ ret' = calculate_monthly_totals(expenses)

CalculateMonthlyCategoryTotals ==
    /\ op = "idle"
    /\ \E expenses \in AggregateRowLists :
          /\ op' = "calculate_monthly_category_totals"
          /\ args' = [expenses |-> expenses]
          /\ ret' = calculate_monthly_category_totals(expenses)

\* main.py:575-585: main() derives both dicts from the same rows and takes the
\* latest month as current_month; a caller may also pass no category totals.
GenerateInsights ==
    /\ op = "idle"
    /\ \E rows \in InsightRowLists, with_categories \in BOOLEAN,
          predicted_total \in InsightPredictions :
        LET monthly_totals == calculate_monthly_totals(rows).val
            monthly_category_totals ==
                IF with_categories THEN calculate_monthly_category_totals(rows).val
                ELSE <<>>
            months == sorted(DOMAIN monthly_totals)
            current_month == months[Len(months)]
        IN  \E order \in iteration_orders(all_categories_of(monthly_totals,
                                              monthly_category_totals, current_month)) :
                /\ op' = "generate_insights"
                /\ args' = [monthly_totals |-> monthly_totals,
                            monthly_category_totals |-> monthly_category_totals,
                            current_month |-> current_month,
                            predicted_total |-> predicted_total]
                /\ ret' = generate_insights(monthly_totals, monthly_category_totals,
                                            current_month, predicted_total, order)

\* A second run of the program on the same input: the same arguments, and
\* whatever order that run's hashing gives the set.
GenerateInsightsAgain ==
    /\ op = "generate_insights"
    /\ \E order \in iteration_orders(all_categories_of(args.monthly_totals,
                         args.monthly_category_totals, args.current_month)) :
        /\ op' = "generate_insights_again"
        /\ args' = [monthly_totals |-> args.monthly_totals,
                    monthly_category_totals |-> args.monthly_category_totals,
                    current_month |-> args.current_month,
                    predicted_total |-> args.predicted_total,
                    previous |-> ret]
        /\ ret' = generate_insights(args.monthly_totals, args.monthly_category_totals,
                                    args.current_month, args.predicted_total, order)

Main ==
    /\ op = "idle"
    /\ \E rows \in MainRowLists :
        /\ op' = "main"
        /\ args' = [rows |-> rows]
        /\ ret' = main(rows)

\* One run of the script: files were uploaded, or none were and the data
\* folder is read.
AppLoadData ==
    /\ op = "idle"
    /\ \/ \E uploaded_files \in UploadedFiles :
            /\ args' = [uploaded_files |-> uploaded_files, data_folder |-> Unbound]
            /\ ret' = load_data(uploaded_files, Unbound)
       \/ \E data_folder \in DataFolders :
            /\ args' = [uploaded_files |-> <<>>, data_folder |-> data_folder]
            /\ ret' = load_data(<<>>, data_folder)
    /\ op' = "app_load_data"

\* The script goes on to the sanity check unless the load step stopped it.
AppSanityCheck ==
    /\ op = "app_load_data"
    /\ ret.tag = "value"
    /\ op' = "app_sanity_check"
    /\ args' = [namespace |-> ret.val]
    /\ ret' = sanity_check(ret.val)

AppCoreMetrics ==
    /\ op = "app_sanity_check"
    /\ ret.tag = "value"
    /\ op' = "app_core_metrics"
    /\ args' = [namespace |-> ret.val]
    /\ ret' = core_metrics(ret.val)

Next ==
    \/ ProrateMonthlyAmount
    \/ ProratedRentBudget
    \/ RentAffordabilityReport
    \/ AffordabilityWithUiOverride
    \/ RenderAffordabilityCard
    \/ StatusLabel
    \/ CalculateMonthOverMonthChange
    \/ PredictMonthlySpending
    \/ EvaluatePrediction
    \/ PredictMidMonth
    \/ EvaluateBudgets
    \/ EstimateBaselineNonrentSpending
    \/ CalculateTotalSpent
    \/ CalculateCategoryTotals
    \/ CalculateMonthlyTotals
    \/ CalculateMonthlyCategoryTotals
    \/ GenerateInsights
    \/ GenerateInsightsAgain
    \/ Main
    \/ AppLoadData
    \/ AppSanityCheck
    \/ AppCoreMetrics

Spec == Init /\ [][Next]_vars

-----------------------------------------------------------------------------
(* Properties.  The year, month and day a text names are read off its      *)
(* digit positions, independently of split and int above.                  *)

KeyYear(k) ==
    (k[1] - 48) * 1000 + (k[2] - 48) * 100 + (k[3] - 48) * 10 + (k[4] - 48)

KeyMonth(k) == (k[6] - 48) * 10 + (k[7] - 48)

DateDay(t) == (t[9] - 48) * 10 + (t[10] - 48)

\* Month a is chronologically before month b.
Before(a, b) ==
    \/ KeyYear(a) < KeyYear(b)
    \/ KeyYear(a) = KeyYear(b) /\ KeyMonth(a) < KeyMonth(b)

\* Days of a month in the Gregorian calendar.
GregorianDays(year, month) ==
    IF month \in {4, 6, 9, 11} THEN 30
    ELSE IF month # 2 THEN 31
    ELSE IF (year % 4 = 0 /\ year % 100 # 0) \/ year % 400 = 0 THEN 29
    ELSE 28

KeyDays(k) == GregorianDays(KeyYear(k), KeyMonth(k))

\* The fixed cost the decision table of the affordability projector gives.
TableFixedCost(target, start, start_day, amount) ==
    IF target = start THEN prorate_monthly_amount(target, start_day, amount)
    ELSE IF Before(start, target) THEN amount
    ELSE R(0)

\* C1: the projected fixed cost of a report is the prorated amount in the
\* start month, the full amount in every chronologically later month and 0 in
\* every earlier month, for the engine's report and for the dashboard's; and
\* the string order of month keys is their chronological order.
C1_FixedCostByMonth ==
    /\ op = "rent_affordability_report" =>
          ret.val.projected_rent =
              TableFixedCost(args.target_month, RENT_START_MONTH,
                             RENT_START_DAY, R(RENT_AMOUNT))
    /\ op = "affordability_with_ui_override" =>
          ret.val.projected_rent =
              TableFixedCost(args.target_month, args.ui.rent_start_month,
                             args.ui.rent_start_day, args.ui.rent_amount)
    /\ op \in {"rent_affordability_report", "affordability_with_ui_override"} =>
          \A k \in MonthKeys :
              /\ StrLess(args.target_month, k) <=> Before(args.target_month, k)
              /\ StrGreater(args.target_month, k) <=> Before(k, args.target_month)

\* A dashboard report for a month of an earlier year but a later month number
\* than the rent start (2024-10 against 2026-02): no rent yet.
C1_Witness ==
    /\ op = "affordability_with_ui_override"
    /\ args.target_month = MonthKey(2024, 10)
    /\ args.ui.rent_start_month = MonthKey(2026, 2)
    /\ ret.val.projected_rent = R(0)

\* C2: every returned affordability report has total = baseline + rent,
\* net = income - total, and both percentages equal to amount / income * 100
\* when income > 0 and to 0 when income <= 0.
C2_ReportIdentities ==
    op \in {"rent_affordability_report", "affordability_with_ui_override"} =>
        LET rep == ret.val IN
        /\ rep.projected_total_spend = Add(rep.baseline_nonrent_spend, rep.projected_rent)
        /\ rep.projected_net = Sub(rep.projected_income, rep.projected_total_spend)
        /\ Gt(rep.projected_income, R(0)) =>
              /\ Mul(rep.rent_pct_income, rep.projected_income)
                     = Mul(rep.projected_rent, R(100))
              /\ Mul(rep.spend_pct_income, rep.projected_income)
                     = Mul(rep.projected_total_spend, R(100))
        /\ Le(rep.projected_income, R(0)) =>
              rep.rent_pct_income = R(0) /\ rep.spend_pct_income = R(0)

\* A dashboard report whose income was overridden to 100 after the engine
\* built it with 3300.
C2_Witness ==
    /\ op = "affordability_with_ui_override"
    /\ args.ui.use_income_override
    /\ ret.val.projected_income = R(100)
    /\ ret.val.projected_rent = R(40)
    /\ ret.val.projected_net = R(15)

\* The classification the priority order gives.
Classification(rep) ==
    IF Le(rep.projected_income, R(0)) THEN "Not affordable (no income)"
    ELSE IF Lt(rep.projected_net, R(0)) THEN "Not affordable (negative net)"
    ELSE IF Gt(rep.rent_pct_income, R(40)) THEN "Tight"
    ELSE IF Gt(rep.spend_pct_income, R(85)) THEN "Tight"
    ELSE "Comfortable"

\* C3: the status of a report follows the priority order no income, negative
\* net, tight, comfortable; income 0 is always "no income", and 40% rent with
\* 85% spend is comfortable.
C3_StatusPriority ==
    op \in {"render_affordability_card", "status_label"} =>
        LET rep == args.rep IN
        /\ ret.val = Classification(rep)
        /\ rep.projected_income = R(0) => ret.val = "Not affordable (no income)"
        /\ ( /\ Gt(rep.projected_income, R(0))
             /\ Ge(rep.projected_net, R(0))
             /\ rep.rent_pct_income = R(40)
             /\ rep.spend_pct_income = R(85) ) => ret.val = "Comfortable"

\* A report the dashboard built with rent at exactly 40% and spend at exactly
\* 85% of income, shown as comfortable.
C3_Witness ==
    /\ op = "render_affordability_card"
    /\ args.rep.rent_pct_income = R(40)
    /\ args.rep.spend_pct_income = R(85)
    /\ ret.val = "Comfortable"

\* C4: for a start day within the month, prorate returns
\* amount * (daysInMonth - startDay + 1) / daysInMonth with Gregorian month
\* lengths; a start on day 1 returns the whole amount, and
\* prorate("2026-02", 14, 1400) = 750.
C4_Prorate ==
    op \in {"prorate_monthly_amount", "prorated_rent_budget"} =>
        LET dim == KeyDays(args.month_key) IN
        /\ args.start_day \in 1..dim =>
              ret.val = Div(Mul(args.full_month_amount, R(dim - args.start_day + 1)), R(dim))
        /\ args.start_day = 1 => ret.val = args.full_month_amount
        /\ ( /\ args.month_key = MonthKey(2026, 2)
             /\ args.start_day = 14
             /\ args.full_month_amount = R(1400) ) => ret.val = R(750)

\* Rent of 1400 from the 29th of February 2024, a leap year: one day of 29.
C4_Witness ==
    /\ op = "prorate_monthly_amount"
    /\ args.month_key = MonthKey(2024, 2)
    /\ args.start_day = 29
    /\ args.full_month_amount = R(1400)
    /\ ret.val = <<1400, 29>>

\* Month a is immediately followed by month b among the keys K.
Adjacent(K, a, b) ==
    Before(a, b) /\ ~ \E c \in K : Before(a, c) /\ Before(c, b)

\* C5: for n >= 2 month keys monthOverMonth returns n-1 entries, the i-th
\* from the i-th to the (i+1)-th key in chronological order with
\* change = total[to] - total[from], each adjacent pair once and no other
\* pair; for fewer than two keys it returns None.
C5_MonthOverMonthPairs ==
    op = "calculate_month_over_month_change" =>
        LET mt == args.monthly_totals
            K  == DOMAIN mt
            n  == Cardinality(K)
        IN
        /\ n < 2 => ret = None
        /\ n >= 2 =>
              /\ ret.tag = "value"
              /\ Len(ret.val) = n - 1
              /\ \A i \in 1..(n - 1) :
                    LET e == ret.val[i] IN
                    /\ e.from \in K /\ e.to \in K
                    /\ Cardinality({k \in K : Before(k, e.from)}) = i - 1
                    /\ Cardinality({k \in K : Before(k, e.to)}) = i
                    /\ e.change = Sub(mt[e.to], mt[e.from])
              /\ \A a, b \in K :
                    Cardinality({i \in DOMAIN ret.val :
                                    ret.val[i].from = a /\ ret.val[i].to = b})
                        = IF Adjacent(K, a, b) THEN 1 ELSE 0

\* Three months given: two entries, 1900-12 -> 2024-10 -> 2026-02.
C5_Witness ==
    /\ op = "calculate_month_over_month_change"
    /\ DOMAIN args.monthly_totals =
           {MonthKey(2026, 2), MonthKey(1900, 12), MonthKey(2024, 10)}
    /\ ret.tag = "value"
    /\ Len(ret.val) = 2
    /\ ret.val[1].from = MonthKey(1900, 12) /\ ret.val[1].to = MonthKey(2024, 10)
    /\ ret.val[2].from = MonthKey(2024, 10) /\ ret.val[2].to = MonthKey(2026, 2)

\* The quotient times 100, or 0 when the guard of the denominator fails.
GuardedPct(x, denominator, guard) ==
    IF guard THEN Mul(Div(x, denominator), R(100)) ELSE R(0)

\* C6: no ratio fails with a division by zero: percentChange is 0 when the
\* previous total is 0, percentError is 0 when actual is 0, pctUsed is 0 when
\* the ceiling is <= 0, the affordability percentages are 0 when income is
\* <= 0, and otherwise each is the quotient times 100.
C6_NoDivisionByZero ==
    /\ ret.tag # "ZeroDivisionError"
    /\ op = "calculate_month_over_month_change" /\ ret.tag = "value" =>
          \A i \in DOMAIN ret.val :
              LET e    == ret.val[i]
                  prev == args.monthly_totals[e.from]
              IN  /\ ~IsErr(e.percent_change)
                  /\ e.percent_change = GuardedPct(e.change, prev, prev # R(0))
    /\ op = "evaluate_prediction" =>
          /\ ret.tag = "value"
          /\ ~IsErr(ret.val[2])
          /\ ret.val[2] = GuardedPct(Sub(args.predicted, args.actual), args.actual,
                                     args.actual # R(0))
    /\ op = "evaluate_budgets" =>
          /\ ret.tag = "value"
          /\ \A i \in DOMAIN ret.val :
                LET a == ret.val[i] IN
                /\ ~IsErr(a.pct_used)
                /\ Gt(a.budget, R(0))
                /\ a.pct_used = GuardedPct(a.spent, a.budget, TRUE)
          /\ \A j \in DOMAIN args.budgets :
                Le(args.budgets[j][2], R(0)) =>
                    \A i \in DOMAIN ret.val : ret.val[i].category # args.budgets[j][1]
    /\ op \in {"rent_affordability_report", "affordability_with_ui_override"} =>
          LET rep == ret.val
              pos == Gt(rep.projected_income, R(0))
          IN  /\ ~IsErr(rep.rent_pct_income) /\ ~IsErr(rep.spend_pct_income)
              /\ rep.rent_pct_income =
                     GuardedPct(rep.projected_rent, rep.projected_income, pos)
              /\ rep.spend_pct_income =
                     GuardedPct(rep.projected_total_spend, rep.projected_income, pos)

\* A month whose total is 0 followed by one whose total is 300: the change is
\* 300 and the percentage 0.
C6_Witness ==
    /\ op = "calculate_month_over_month_change"
    /\ ret.tag = "value"
    /\ \E i \in DOMAIN ret.val :
          /\ args.monthly_totals[ret.val[i].from] = R(0)
          /\ ret.val[i].change = R(300)
          /\ ret.val[i].percent_change = R(0)

\* The rows of a list whose date lies in month key.
RowsOfMonth(expenses, key) ==
    {n \in 1..Len(expenses) : SubSeq(expenses[n].date, 1, 7) = key}

\* The sum of the amounts of the rows with the given indices.
RECURSIVE SumOfRows(_, _)
SumOfRows(expenses, idx) ==
    IF idx = {} THEN R(0)
    ELSE LET n == CHOOSE k \in idx : TRUE
         IN  Add(expenses[n].amount, SumOfRows(expenses, idx \ {n}))

LastActiveDay(expenses, idx) ==
    CHOOSE d \in {DateDay(expenses[n].date) : n \in idx} :
        \A n \in idx : DateDay(expenses[n].date) <= d

\* C7: projectEndOfMonth returns None exactly when no row lies in the target
\* month; otherwise spentSoFar is the sum of the month's amounts and
\* projectedTotal = spentSoFar / lastActiveDay * daysInMonth; one row of 100
\* on day 10 of a 30-day month gives (100, 300).
C7_ProjectEndOfMonth ==
    op = "predict_monthly_spending" =>
        LET idx == RowsOfMonth(args.expenses, args.target_month) IN
        /\ ret = None <=> idx = {}
        /\ idx # {} =>
              LET sum == SumOfRows(args.expenses, idx) IN
              /\ ret.tag = "value"
              /\ ret.val[1] = sum
              /\ ret.val[2] = Mul(Div(sum, R(LastActiveDay(args.expenses, idx))),
                                  R(KeyDays(args.target_month)))
        /\ ( /\ Len(args.expenses) = 1
             /\ args.expenses[1].date = DateText(2026, 4, 10)
             /\ args.expenses[1].amount = R(100)
             /\ args.target_month = MonthKey(2026, 4) ) => ret.val = <<R(100), R(300)>>

\* One row of 100 on 2026-04-10, projected for April 2026.
C7_Witness ==
    /\ op = "predict_monthly_spending"
    /\ Len(args.expenses) = 1
    /\ args.expenses[1].date = DateText(2026, 4, 10)
    /\ args.expenses[1].amount = R(100)
    /\ args.target_month = MonthKey(2026, 4)
    /\ ret = Value(<<R(100), R(300)>>)

\* The rows of the target month on or before the cutoff day.
RowsUntilCutoff(expenses, key, cutoff_day) ==
    {n \in RowsOfMonth(expenses, key) : DateDay(expenses[n].date) <= cutoff_day}

\* The list with every row of a day after the cutoff day removed.
WithoutLaterDays(expenses, cutoff_day) ==
    LET Keep(row) == DateDay(row.date) <= cutoff_day IN SelectSeq(expenses, Keep)

\* C8 as stated: whenever projectAtCutoff returns a value, it is the
\* projectedTotal of projectEndOfMonth on the list without the rows after the
\* cutoff day (the restricted sum over the latest restricted active day).
C8_SameAsEndOfMonth ==
    op = "predict_mid_month" /\ ret.tag = "value" =>
        LET eom == predict_monthly_spending(
                       WithoutLaterDays(args.expenses, args.cutoff_day), args.target_month)
        IN  eom.tag = "value" /\ ret.val = eom.val[2]

\* C8 amended: whenever projectAtCutoff returns a value, it is the restricted
\* sum / cutoffDay * daysInMonth, and it equals projectEndOfMonth's
\* projectedTotal on the restricted list exactly when the latest restricted
\* active day is the cutoff day.
C8_CutoffDayIsDivisor ==
    op = "predict_mid_month" /\ ret.tag = "value" =>
        LET idx == RowsUntilCutoff(args.expenses, args.target_month, args.cutoff_day)
            sum == SumOfRows(args.expenses, idx)
            eom == predict_monthly_spending(
                       WithoutLaterDays(args.expenses, args.cutoff_day), args.target_month)
        IN  /\ idx # {}
            /\ ret.val = Mul(Div(sum, R(args.cutoff_day)), R(KeyDays(args.target_month)))
            /\ eom.tag = "value"
            /\ eom.val[1] = sum
            /\ ret.val = eom.val[2] <=> LastActiveDay(args.expenses, idx) = args.cutoff_day

\* One row of 100 on day 10, cutoff day 15, April: 100 / 15 * 30 = 200, where
\* projectEndOfMonth gives 300.
C8_Witness ==
    /\ op = "predict_mid_month"
    /\ Len(args.expenses) = 1
    /\ args.expenses[1].date = DateText(2026, 4, 10)
    /\ args.expenses[1].amount = R(100)
    /\ args.target_month = MonthKey(2026, 4)
    /\ args.cutoff_day = 15
    /\ ret = Value(R(200))
    /\ predict_monthly_spending(args.expenses, args.target_month) = Value(<<R(100), R(300)>>)

\* C9: projectAtCutoff returns None exactly when the amounts of the target
\* month's rows up to the cutoff day sum to zero (no such row, or rows that
\* cancel), and a value whenever that sum is not zero.
C9_NoneIffZeroSum ==
    op = "predict_mid_month" =>
        LET idx == RowsUntilCutoff(args.expenses, args.target_month, args.cutoff_day)
            sum == SumOfRows(args.expenses, idx)
        IN  /\ ret = None <=> sum = R(0)
            /\ sum # R(0) => ret.tag = "value"

\* Rows of 100 and -100 up to the cutoff day: they cancel, and the result is
\* None although rows matched.
C9_Witness ==
    /\ op = "predict_mid_month"
    /\ RowsUntilCutoff(args.expenses, args.target_month, args.cutoff_day) # {}
    /\ ret = None

\* pctUsed of the budget evaluator: spend / ceiling * 100, 0 for a ceiling <= 0.
PctUsed(spend, ceiling) == GuardedPct(spend, ceiling, Gt(ceiling, R(0)))

\* C10: each budgeted category gets at most one alert: over budget when
\* pctUsed >= 100, warning when 80 <= pctUsed < 100, none below 80; a category
\* without a budget gets none, and a budgeted category without spend in the
\* month counts as spend 0.
C10_BudgetAlerts ==
    op = "evaluate_budgets" =>
        /\ ret.tag = "value"
        /\ LET alerts == ret.val
               mct    == args.monthly_category_totals
               month  == args.current_month
               HasSpend(c) == month \in DOMAIN mct /\ c \in DOMAIN mct[month]
               Spend(c)    == IF HasSpend(c) THEN mct[month][c] ELSE R(0)
               Budgeted    == {args.budgets[j][1] : j \in DOMAIN args.budgets}
               Ceiling(c)  == args.budgets[CHOOSE j \in DOMAIN args.budgets :
                                               args.budgets[j][1] = c][2]
               AlertsOn(c) == {i \in DOMAIN alerts : alerts[i].category = c}
           IN  \A c \in BudgetCategories \cup SpendCategories :
                  /\ Cardinality(AlertsOn(c)) <= 1
                  /\ c \notin Budgeted => AlertsOn(c) = {}
                  /\ c \in Budgeted =>
                        LET pct == PctUsed(Spend(c), Ceiling(c)) IN
                        /\ Ge(pct, R(100)) =>
                              \E i \in AlertsOn(c) : alerts[i].kind = "ALERT"
                        /\ Ge(pct, R(80)) /\ Lt(pct, R(100)) =>
                              \E i \in AlertsOn(c) : alerts[i].kind = "Warning"
                        /\ Lt(pct, R(80)) => AlertsOn(c) = {}
        /\ \A i \in DOMAIN ret.val :
              ret.val[i].category \in {args.budgets[j][1] : j \in DOMAIN args.budgets}

\* Food at 350 of 400 and Misc, which has no budget, at 420: one warning, for
\* Food; Transport, budgeted 400 with no spend, gets none.
C10_Witness ==
    /\ op = "evaluate_budgets"
    /\ args.budgets = <<<<"Food", R(400)>>, <<"Transport", R(400)>>>>
    /\ args.monthly_category_totals =
           (MonthKey(2026, 4) :> [c \in {"Food", "Misc"} |->
                                     IF c = "Food" THEN R(350) ELSE R(420)])
    /\ ret.tag = "value"
    /\ Len(ret.val) = 1
    /\ ret.val[1].kind = "Warning" /\ ret.val[1].category = "Food"

\* The months of K in chronological order.
RECURSIVE Chronological(_)
Chronological(K) ==
    IF K = {} THEN <<>>
    ELSE LET last == CHOOSE k \in K : \A o \in K \ {k} : Before(o, k)
         IN  Append(Chronological(K \ {last}), last)

\* The sum of |total| over the categories of cat_map other than fixed.
RECURSIVE SpendWithout(_, _, _)
SpendWithout(cat_map, cats, fixed) ==
    IF cats = {} THEN R(0)
    ELSE LET c == CHOOSE x \in cats : TRUE
         IN  Add(IF c = fixed THEN R(0) ELSE AbsR(cat_map[c]),
                 SpendWithout(cat_map, cats \ {c}, fixed))

RECURSIVE SumOver(_, _, _)
SumOver(mct, months, fixed) ==
    IF months = {} THEN R(0)
    ELSE LET m == CHOOSE x \in months : TRUE
         IN  Add(SpendWithout(mct[m], DOMAIN mct[m], fixed),
                 SumOver(mct, months \ {m}, fixed))

\* What estimateBaseline is to return when the fixed-cost category is fixed.
ExpectedBaseline(mct, window, fixed) ==
    LET all  == Chronological(DOMAIN mct)
        n    == Min(window, Len(all))
        used == SubSeq(all, Len(all) - n + 1, Len(all))
    IN  IF n = 0 THEN <<R(0), <<>>>>
        ELSE <<Div(SumOver(mct, {used[i] : i \in 1..n}, fixed), R(n)), used>>

\* The category names a configuration could give the fixed cost.
FixedCostNames == {"Rent", "rent", "Food"}

\* C11 as stated: the baseline leaves out the fixed-cost category whatever
\* name the configuration gives it.
C11_ConfiguredFixedCost ==
    op = "estimate_baseline_nonrent_spending" =>
        \A fixed \in FixedCostNames :
            ret = Value(ExpectedBaseline(args.monthly_category_totals,
                                         args.months_back, fixed))

\* C11 amended: with window >= 1 the baseline uses the min(window, months)
\* latest month keys, returns them ascending, and averages over them the sum
\* of |total| of every category not named exactly "Rent", the name the
\* function hardcodes; no months give 0 and the empty list.
C11_BaselineExcludesRent ==
    op = "estimate_baseline_nonrent_spending" /\ args.months_back >= 1 =>
        /\ ret = Value(ExpectedBaseline(args.monthly_category_totals,
                                        args.months_back, "Rent"))
        /\ DOMAIN args.monthly_category_totals = {} => ret = Value(<<R(0), <<>>>>)

\* Three months and a window of 2: the two latest are used; "Rent" is left
\* out, "rent" and "Food" are counted: (100 + 100 + 60) / 2 = 130.
C11_Witness ==
    /\ op = "estimate_baseline_nonrent_spending"
    /\ args.months_back = 2
    /\ DOMAIN args.monthly_category_totals = BaselineKeys
    /\ args.monthly_category_totals[MonthKey(2026, 2)] = [c \in {"rent", "Food"} |-> R(-100)]
    /\ args.monthly_category_totals[MonthKey(2026, 10)] =
           [c \in {"Rent", "Food"} |-> IF c = "Rent" THEN R(-100) ELSE R(60)]
    /\ ret = Value(<<R(130), <<MonthKey(2026, 2), MonthKey(2026, 10)>>>>)

\* The sum of the values of dict d at the keys given.
RECURSIVE SumOfValues(_, _)
SumOfValues(d, keys) ==
    IF keys = {} THEN R(0)
    ELSE LET k == CHOOSE x \in keys : TRUE
         IN  Add(d[k], SumOfValues(d, keys \ {k}))

AllRows(expenses) == 1..Len(expenses)

\* C12: aggregation conserves the total: totalOf is the sum of the amounts
\* (0 for no rows); the values of byCategory and of byMonth each sum to it;
\* byMonthAndCategory has byMonth's month keys and under each the category
\* totals sum to byMonth's total; "" is a category key like any other.
C12_AggregationConservesTotal ==
    LET rows  == args.expenses
        total == SumOfRows(rows, AllRows(rows))
    IN
    /\ op = "calculate_total_spent" =>
          /\ ret = Value(total)
          /\ rows = <<>> => ret = Value(R(0))
    /\ op = "calculate_category_totals" =>
          /\ SumOfValues(ret.val, DOMAIN ret.val) = calculate_total_spent(rows).val
          /\ SumOfValues(ret.val, DOMAIN ret.val) = total
          /\ DOMAIN ret.val = {rows[n].category : n \in AllRows(rows)}
          /\ \A c \in DOMAIN ret.val :
                ret.val[c] = SumOfRows(rows, {n \in AllRows(rows) : rows[n].category = c})
    /\ op = "calculate_monthly_totals" =>
          /\ SumOfValues(ret.val, DOMAIN ret.val) = calculate_total_spent(rows).val
          /\ SumOfValues(ret.val, DOMAIN ret.val) = total
          /\ \A m \in DOMAIN ret.val : ret.val[m] = SumOfRows(rows, RowsOfMonth(rows, m))
    /\ op = "calculate_monthly_category_totals" =>
          LET byMonth == calculate_monthly_totals(rows).val IN
          /\ DOMAIN ret.val = DOMAIN byMonth
          /\ DOMAIN ret.val = {SubSeq(rows[n].date, 1, 7) : n \in AllRows(rows)}
          /\ \A m \in DOMAIN ret.val :
                /\ SumOfValues(ret.val[m], DOMAIN ret.val[m]) = byMonth[m]
                /\ SumOfValues(ret.val[m], DOMAIN ret.val[m])
                       = SumOfRows(rows, RowsOfMonth(rows, m))

\* Three rows, two of them without a category: "" totals 100 - 40 = 60 and
\* Food 100, together the 160 of all rows.
C12_Witness ==
    /\ op = "calculate_category_totals"
    /\ Len(args.expenses) = 3
    /\ DOMAIN ret.val = {"", "Food"}
    /\ ret.val[""] = R(60)
    /\ ret.val["Food"] = R(100)


\* The amount a category map holds for a category, zero when it is missing.
AmountOr0(cat_map, c) == IF c \in DOMAIN cat_map THEN cat_map[c] ELSE R(0)

\* The category map a month has, empty when the month is missing.
CategoriesOf(mct, month) == IF month \in DOMAIN mct THEN mct[month] ELSE <<>>

\* The insights of one kind in a list of insights.
InsightsOfKind(insights, kind) ==
    {i \in DOMAIN insights : insights[i].kind = kind}

\* C13 as stated: two runs of the pipeline on identical input give identical
\* outputs: the insights of the second run are those of the first.
C13_RunsAgree ==
    op = "generate_insights_again" => ret = args.previous

\* C14: with a previous month, the biggest-mover step looks at the union of
\* the previous and the current month's categories (a missing one counts 0);
\* it reports a category of that union with its delta = current - previous,
\* no other delta being larger in absolute value, and it reports none exactly
\* when the union is empty or every delta is zero.
C14_BiggestMover ==
    LET order == Chronological(DOMAIN args.monthly_totals) IN
    (op \in {"generate_insights", "generate_insights_again"} /\ Len(order) >= 2) =>
        LET prev     == CategoriesOf(args.monthly_category_totals, order[Len(order) - 1])
            curr     == CategoriesOf(args.monthly_category_totals, args.current_month)
            union    == DOMAIN prev \cup DOMAIN curr
            Delta(c) == Sub(AmountOr0(curr, c), AmountOr0(prev, c))
            reported == InsightsOfKind(ret.val, "biggest")
        IN  /\ ret.tag = "value"
            /\ Cardinality(reported) <= 1
            /\ reported = {} <=> (union = {} \/ \A c \in union : Delta(c) = R(0))
            /\ \A i \in reported :
                /\ ret.val[i].cat \in union
                /\ ret.val[i].delta = Delta(ret.val[i].cat)
                /\ \A c \in union : Ge(AbsR(ret.val[i].delta), AbsR(Delta(c)))

\* A falling category outweighs a rising one: Food -200 against Transport +100.
C14_Witness ==
    /\ op = "generate_insights"
    /\ ret.tag = "value"
    /\ \E i \in DOMAIN ret.val :
        /\ ret.val[i].kind = "biggest"
        /\ ret.val[i].cat = "Food"
        /\ ret.val[i].delta = R(-200)
    /\ "Transport" \in DOMAIN CategoriesOf(args.monthly_category_totals, args.current_month)

\* The expense rows of a month and a category.
ExpensesOf(rows, month, c) ==
    {n \in RowsOfMonth(rows, month) : rows[n].type = "expense" /\ rows[n].category = c}

\* C15 as stated: the budget evaluator counts a category's total as the
\* baseline does, by its magnitude: in the current month a category whose
\* total has a magnitude of at least 80% of its positive ceiling gets a warning
\* or an over-budget alert, whether its expenses are negative or positive.
C15_AlertsFollowMagnitude ==
    (op = "main" /\ ret.tag = "value") =>
        \A j \in DOMAIN ret.val.budgets_for_current_month :
            LET c       == ret.val.budgets_for_current_month[j][1]
                ceiling == ret.val.budgets_for_current_month[j][2]
                spent   == SumOfRows(args.rows,
                                     ExpensesOf(args.rows, ret.val.current_month, c))
            IN  (Gt(ceiling, R(0)) /\ Ge(Mul(AbsR(spent), R(100)), Mul(ceiling, R(80))))
                    => \E i \in DOMAIN ret.val.budget_alerts :
                           ret.val.budget_alerts[i].category = c

\* C16 as stated: on every path through the load step that does not stop,
\* whether files were uploaded or the data folder was read, income_rows and
\* expense_rows are bound before the sanity check and the core metrics read
\* them, so no run fails on an undefined name.
C16_RowsSplitBeforeUse ==
    /\ ret.tag # "NameError"
    /\ (op = "app_load_data" /\ ret.tag = "value") =>
           /\ ret.val.income_rows.tag = "value"
           /\ ret.val.expense_rows.tag = "value"
=============================================================================
